---- MODULE Spec2Model ----
(***************************************************************************)
(* Model of DocScraper (src/scraper.py): the crawl loop scrape_docs, the   *)
(* scope filter is_valid_docs_url, the two extraction strategies           *)
(* extract_content / extract_from_openapi, the dual-queue frontier, and   *)
(* the serialization save_to_file that main runs once the crawl returned.  *)
(*                                                                         *)
(* URLs and texts are strings, handled character by character as the       *)
(* Python code handles them (urlparse, str.lower, str.startswith, `in`).   *)
(* The network is the environment: every fetch is answered by a page drawn *)
(* from the bounded set Pages, so the link graph is any graph over URLs    *)
(* that those pages can spell, and it may differ from fetch to fetch.      *)
(***************************************************************************)
EXTENDS Naturals, Sequences, FiniteSets, TLC

VARIABLES
    base_url,         \* self.base_url                       (line 12)
    max_pages,        \* scrape_docs argument                (line 246)
    visited_urls,     \* self.visited_urls                   (line 14)
    scraped_content,  \* self.scraped_content                (line 15)
    priority_queue,   \* local deque of scrape_docs          (line 248)
    regular_queue,    \* local deque of scrape_docs          (line 249)
    page_count,       \* local counter of scrape_docs        (line 250)
    pc,               \* "loop": at the while head; "done": scrape_docs returned;
                      \* "saved": save_to_file returned
    requests,         \* history: every URL handed to session.get, in order
    pushes,           \* history: every queue append [url, from, queue], in order
    last,             \* history: what the latest loop iteration did
    failed,           \* history: URLs whose extraction raised (lines 176, 238)
    owed,             \* history: <<P, R>> enqueued together, P not popped yet
    late,             \* history: <<P, R>> where R was popped while P was owed
    chain,            \* history: every processed page had content and one new link
    output            \* the strings written to self.output_file, one per f.write

vars == << base_url, max_pages, visited_urls, scraped_content, priority_queue,
           regular_queue, page_count, pc, requests, pushes, last, failed,
           owed, late, chain, output >>

----------------------------------------------------------------------------
(* Bounds of the model.                                                    *)

\* scrape_docs is run with max_pages in 0..MaxPages.
MaxPages == 4

----------------------------------------------------------------------------
(* Strings.                                                                *)

Range(s) == { s[i] : i \in DOMAIN s }

CharAt(s, i) == SubSeq(s, i, i)

\* Python `needle in hay` for strings.
Contains(hay, needle) ==
    \E h \in { hay } :
        \E i \in 1..(Len(h) + 1 - Len(needle)) : SubSeq(h, i, i + Len(needle) - 1) = needle

\* Python hay.startswith(prefix).
StartsWith(hay, prefix) ==
    /\ Len(prefix) <= Len(hay)
    /\ SubSeq(hay, 1, Len(prefix)) = prefix

\* Position of the first occurrence of needle in hay at or after from; 0 if none.
RECURSIVE FindFrom(_, _, _)
FindFrom(hay, needle, from) ==
    IF from + Len(needle) - 1 > Len(hay) THEN 0
    ELSE IF SubSeq(hay, from, from + Len(needle) - 1) = needle THEN from
    ELSE FindFrom(hay, needle, from + 1)

UpperCase == "ABCDEFGHIJKLMNOPQRSTUVWXYZ"
LowerCase == "abcdefghijklmnopqrstuvwxyz"

LowerChar(c) ==
    LET k == FindFrom(UpperCase, c, 1)
    IN  IF k = 0 THEN c ELSE CharAt(LowerCase, k)

\* Python str.lower(): the characters from position i on, lowered.
RECURSIVE LowerFrom(_, _)
LowerFrom(s, i) ==
    IF i > Len(s) THEN "" ELSE LowerChar(CharAt(s, i)) \o LowerFrom(s, i + 1)

Lower(s) == LowerFrom(s, 1)

\* The first position at or after i that holds no blank, Len(s) + 1 if none.
RECURSIVE SkipBlanks(_, _)
SkipBlanks(s, i) ==
    IF i > Len(s) THEN i ELSE IF CharAt(s, i) = " " THEN SkipBlanks(s, i + 1) ELSE i

\* The last position at or before i that holds no blank, 0 if none.
RECURSIVE SkipBlanksBack(_, _)
SkipBlanksBack(s, i) ==
    IF i < 1 THEN 0 ELSE IF CharAt(s, i) = " " THEN SkipBlanksBack(s, i - 1) ELSE i

\* Python str.strip(), for the blank the model's texts use.
Strip(s) == SubSeq(s, SkipBlanks(s, 1), SkipBlanksBack(s, Len(s)))

\* Python c * n for a one-character string c.
RECURSIVE Repeat(_, _)
Repeat(c, n) == IF n = 0 THEN "" ELSE c \o Repeat(c, n - 1)

----------------------------------------------------------------------------
(* URLs.                                                                   *)

\* urllib.parse.urlparse, for URLs of the shape scheme://netloc/path (no
\* query, no fragment): the three components the code reads.
\* s is where "://" starts and p where the path starts (0: there is none).
split_url(url, s, p) ==
    [ scheme |-> IF s = 0 THEN "" ELSE SubSeq(url, 1, s - 1),
      netloc |-> IF s = 0 THEN ""
                 ELSE IF p = 0 THEN SubSeq(url, s + 3, Len(url))
                 ELSE SubSeq(url, s + 3, p - 1),
      path   |-> IF p = 0 THEN "" ELSE SubSeq(url, p, Len(url)) ]

split_after_scheme(url, s) ==
    split_url(url, s, IF s = 0 THEN 1 ELSE FindFrom(url, "/", s + 3))

urlparse(url) == split_after_scheme(url, FindFrom(url, "://", 1))

\* f"{parsed.scheme}://{parsed.netloc}" (lines 185, 233).
site_root(parsed) == parsed.scheme \o "://" \o parsed.netloc

\* Position of the last "/" of s; 0 if none.
RECURSIVE LastSlash(_, _)
LastSlash(s, i) ==
    IF i = 0 THEN 0 ELSE IF CharAt(s, i) = "/" THEN i ELSE LastSlash(s, i - 1)

\* urllib.parse.urljoin for the three href shapes the model's pages use: an
\* absolute URL replaces the page URL, a rooted path replaces its path, and a
\* relative name replaces the last segment of its path.
join_parsed(url, parsed, href) ==
    IF Contains(href, "://") THEN href
    ELSE IF StartsWith(href, "/") THEN site_root(parsed) \o href
    ELSE IF href = "" THEN url
    ELSE site_root(parsed)
         \o SubSeq(parsed.path, 1, LastSlash(parsed.path, Len(parsed.path))) \o href

urljoin(url, href) == join_parsed(url, urlparse(url), href)

\* DocScraper.is_valid_docs_url (lines 21-25).
is_valid_docs_url(url, base) ==
    LET parsed == urlparse(url)
        base_parsed == urlparse(base)
    IN  /\ parsed.netloc = base_parsed.netloc
        /\ StartsWith(parsed.path, base_parsed.path)

----------------------------------------------------------------------------
(* Program constants.                                                      *)

\* len(text) > 10 (line 77).
MinTextLen == 10

\* "=" * 50 (line 307).
RuleWidth == 50

\* i < 3 (line 288).
PriorityPrefix == 3

\* ['next', 'plan', 'step', 'part'] (line 288).
Indicators == { "next", "plan", "step", "part" }

\* next_keywords (line 148); the arrow is written "->" here.
next_keywords == { "next", "->", ">", "continue", "forward", "siguiente" }

Headings == { "h1", "h2", "h3", "h4", "h5", "h6" }

\* Python None, where a title is expected: titles are sequences of at most one
\* string, the empty one standing for None.
None == << >>
Some(s) == << s >>

----------------------------------------------------------------------------
(* What the network serves.                                                *)
(*                                                                         *)
(* A page is the response to session.get(url) as BeautifulSoup sees it     *)
(* after lines 43-53 removed nav, footer, aside, script, style and the     *)
(* promotional block:                                                      *)
(*   status   "ok", or "error" for a transport error or a non-2xx status   *)
(*   marker   whether response.text contains "<elements-api"               *)
(*   root     whether main, article, a class with "content" or body exists *)
(*   h1       the text of the first h1 of the document, if any             *)
(*   elements the h1..h6, p, li, td, pre, code elements of the content     *)
(*            root in document order, each [name, text]                    *)
(*   anchors  the <a href> of the document in document order, each         *)
(*            [href, in_content, text, class, aria_label, nav_scope]:      *)
(*            nav_scope says the anchor lies under an element that one of  *)
(*            the ancestor selectors of lines 106-132 matches              *)
(*   openapi  what /api/v3/openapi.json answers while this page is         *)
(*            processed: [status, title, description, paths]               *)
(***************************************************************************)

Anchor(href, in_content, text, class, aria, nav_scope) ==
    [ href |-> href, in_content |-> in_content, text |-> text,
      class |-> class, aria_label |-> aria, nav_scope |-> nav_scope ]

\* An ordinary link inside the content root.
Plain(href) == Anchor(href, TRUE, "Read more", "", "", FALSE)
\* A link inside the content root whose text says next.
NextInContent(href) == Anchor(href, TRUE, "Next page", "", "", FALSE)
\* A "Next" button outside the content root.
NextButton(href) == Anchor(href, FALSE, "NEXT", "btn", "", FALSE)
\* An arrow link of a pagination bar outside the content root.
NavArrow(href) == Anchor(href, FALSE, " -> ", "pagination-link", "Continue", TRUE)
\* A link of a navigation bar that does not lead forward.
NavBack(href) == Anchor(href, FALSE, "Back", "prev", "", TRUE)

Element(name, text) == [ name |-> name, text |-> text ]

NoOpenApi == [ status |-> "error", title |-> None, description |-> "", paths |-> << >> ]

Param(name, description, required) ==
    [ name |-> name, description |-> description, required |-> required ]

Operation(method, is_dict, summary, description, parameters) ==
    [ method |-> method, is_dict |-> is_dict, summary |-> summary,
      description |-> description, parameters |-> parameters ]

\* The specification documents the model's server can answer with.
OpenApiDocs ==
    { NoOpenApi,
      [ status |-> "ok", title |-> None, description |-> "", paths |-> << >> ],
      [ status |-> "ok", title |-> Some("Ads API"), description |-> "Manage ads",
        paths |-> << [ path |-> "/ads",
                       methods |-> << Operation("get", TRUE, "List ads", "",
                                          << Param("limit", "page size", FALSE),
                                             Param("account", "owner", TRUE) >>),
                                      Operation("x-internal", FALSE, "", "", << >>) >> ] >> ] }

\* The texts of a page with content and of one without: the second holds only
\* texts that the noise filter drops.
WithContent ==
    << Element("h1", " Getting started "), Element("p", "Install it now"),
       Element("li", "short"), Element("h3", "Setup"), Element("h3", "Setting it up"),
       Element("td", "0123456789"), Element("pre", " Install now ") >>
NoContent == << Element("li", "0123456789"), Element("p", "   ") >>

\* The link layouts of the model's pages.
LinkLayouts ==
    { << >>,
      << Plain("Next") >>,
      << Plain("/docs/b") >>,
      << Plain("/docs/v3/changelog") >>,
      << Plain("/docs/e") >>,
      << Plain("/docs/b"), Plain("/docs/v3/changelog") >>,
      << Plain("/docs/b"), Plain("/docs/b") >>,
      << Plain("/docs/v3/changelog"), Plain("/docs/e"), NextInContent("/docs/b") >>,
      << NavBack("/docs/e"), Plain("/docs/b"), NextButton("/docs/b"), NavArrow("Next"),
         NextButton("/docs/e") >>,
      << Plain("http://x/docs/b"), Plain("/docs/"), NextButton("/blog/next") >>,
      << Plain("/docs/b"), Plain("/docs/v3/changelog"), Plain("/docs/e"), Plain("Next") >> }

\* The link layouts of the model's pages without content.
BareLinkLayouts ==
    { << Plain("/docs/b") >>,
      << Plain("/docs/b"), Plain("/docs/v3/changelog") >> }

GenericPage(h1, elements, anchors) ==
    [ status |-> "ok", marker |-> FALSE, root |-> TRUE, h1 |-> h1,
      elements |-> elements, anchors |-> anchors, openapi |-> NoOpenApi ]

GenericPages ==
    { GenericPage(Some(" Getting started "), WithContent, a) : a \in LinkLayouts }
    \cup { GenericPage(None, NoContent, a) : a \in BareLinkLayouts }

ErrorPage ==
    [ status |-> "error", marker |-> FALSE, root |-> FALSE, h1 |-> None,
      elements |-> << >>, anchors |-> << >>, openapi |-> NoOpenApi ]

RootlessPage ==
    [ status |-> "ok", marker |-> FALSE, root |-> FALSE, h1 |-> None,
      elements |-> << >>, anchors |-> << >>, openapi |-> NoOpenApi ]

\* Pages of a JavaScript-rendered site: the marker, and HTML of their own that
\* generic extraction would find content and links in.
MarkerPages ==
    { [ status |-> "ok", marker |-> TRUE, root |-> TRUE, h1 |-> Some("Shell"),
        elements |-> WithContent, anchors |-> << Plain("/docs/b") >>, openapi |-> d ] :
      d \in OpenApiDocs }

Pages == GenericPages \cup MarkerPages \cup { ErrorPage, RootlessPage }

\* The seeds a scraper is constructed with (main, lines 323-332).
BaseURLs == { "http://d/docs/", "http://d/docs/b" }

----------------------------------------------------------------------------
(* The string computations of the code, tabulated over the strings of the  *)
(* model so that each is computed once per run and not once per step.      *)

\* The URL derived at line 185 and the one derived at line 233.
openapi_url(base) == site_root(urlparse(base)) \o "/api/v3/openapi.json"

changelog_url(base) == site_root(urlparse(base)) \o "/docs/v3/changelog"

AllAnchors == UNION { Range(page.anchors) : page \in Pages }
AllElements == UNION { Range(page.elements) : page \in Pages }
Hrefs == { link.href : link \in AllAnchors }

\* The URLs a crawl from BaseURLs can name: what urljoin and the changelog
\* derivation make of them, three links deep (the set is closed by then).
Reach(S) == S \cup { urljoin(u, h) : u \in S, h \in Hrefs } \cup { changelog_url(u) : u \in S }
URLs == Reach(Reach(Reach(BaseURLs)))

\* urljoin(url, href) (lines 92, 100, 140).
full_url_of == [ u \in URLs |-> [ h \in Hrefs |-> urljoin(u, h) ] ]

\* self.is_valid_docs_url(full_url) for a scraper constructed with base.
valid_docs_url == [ base \in BaseURLs |-> { u \in URLs : is_valid_docs_url(u, base) } ]

----------------------------------------------------------------------------
(* Extraction.  A result is what extract_content returns, [arity, title,   *)
(* content, links] (arity 2 for the two-element return of line 64), with   *)
(* the URLs it requested and whether an except clause produced it.         *)

Result(arity, title, content, links, requested, raised) ==
    [ arity |-> arity, title |-> title, content |-> content, links |-> links,
      requests |-> requested, raised |-> raised ]

\* Mutant of EmptyResult: a failure that still reports a title and a link.
EmptyResult_Partial(requested) ==
    Result(3, Some("Error"), << >>, << requested[1] >>, requested, TRUE)

\* return None, [], [] of the except clauses (lines 176-178, 238-240).
EmptyResult(requested) == Result(3, None, << >>, << >>, requested, TRUE)

\* Mutant of keeps_text: a text of exactly MinTextLen characters passes.
keeps_text_AtLeast(text) == text # "" /\ Len(text) >= MinTextLen

\* Whether an element's text passes the filter of line 77.
keeps_text(text) == text # "" /\ Len(text) > MinTextLen

\* Mutant of format_block: every heading is emitted at level 1.
format_block_Flat(name, text) ==
    IF name \in Headings THEN "\n# " \o text \o "\n" ELSE text

\* The block an element that passed the filter contributes (lines 78-81).
format_block(name, text) ==
    IF name \in Headings
    THEN "\n" \o Repeat("#", FindFrom("123456", CharAt(name, 2), 1)) \o " " \o text \o "\n"
    ELSE text

\* What one element contributes (lines 76-81): nothing, or one block.
text_block(elem) ==
    LET text == Strip(elem.text)
    IN  IF keeps_text(text) THEN << format_block(elem.name, text) >> ELSE << >>

text_block_of == [ elem \in AllElements |-> text_block(elem) ]

\* text_content of lines 71-81.
RECURSIVE text_content(_)
text_content(elements) ==
    IF elements = << >> THEN << >>
    ELSE text_block_of[Head(elements)] \o text_content(Tail(elements))

\* The condition all three link loops share (lines 93, 101, 141).
new_docs_url(full_url, visited, base) ==
    full_url \in valid_docs_url[base] /\ full_url \notin visited

\* The URLs of the anchors, urljoin(url, href), in document order.
full_urls(anchors, url) == [ k \in DOMAIN anchors |-> full_url_of[url][anchors[k].href] ]

\* The string filter of line 97.
is_next_button(link) == Contains(Lower(link.text), "next")

\* Whether one of nav_selectors (lines 106-132) selects the anchor: by its own
\* aria-label or class, or by an ancestor (nav_scope).
nav_selected(link) ==
    \/ Contains(link.aria_label, "next")
    \/ Contains(link.aria_label, "Next")
    \/ Contains(link.class, "next")
    \/ Contains(link.class, "pagination")
    \/ link.nav_scope

\* is_next_link of lines 143-162.
is_next_link(nav_link) ==
    LET link_text == Lower(Strip(nav_link.text))
        link_classes == Lower(nav_link.class)
        aria_label == Lower(nav_link.aria_label)
    IN  \/ \E keyword \in next_keywords : Contains(link_text, keyword)
        \/ \E keyword \in { "next", "forward" } : Contains(link_classes, keyword)
        \/ \E keyword \in next_keywords : Contains(aria_label, keyword)
        \/ Contains(aria_label, "next")
        \/ Contains(link_classes, "md-footer__link--next")
        \/ Contains(link_classes, "footer")
        \/ Contains(Lower(nav_link.text), "next")

next_button_anchors == { link \in AllAnchors : is_next_button(link) }
next_nav_anchors == { link \in AllAnchors : nav_selected(link) /\ is_next_link(link) }

\* The entries of full at the positions in keep, in document order.
in_order(full, keep) ==
    [ j \in 1..Cardinality(keep) |->
        full[CHOOSE k \in keep : Cardinality({ i \in keep : i < k }) = j - 1] ]

\* regular_links of lines 90-94: the anchors of the content root.  full is
\* full_urls of the anchors.
regular_links(anchors, full, visited, base) ==
    in_order(full, { k \in DOMAIN anchors :
                       anchors[k].in_content /\ new_docs_url(full[k], visited, base) })

\* next_links after the loop of lines 97-103: the anchors of the whole
\* document that pass the string filter.
next_buttons(anchors, full, visited, base, regular) ==
    in_order(full, { k \in DOMAIN anchors :
                       /\ anchors[k] \in next_button_anchors
                       /\ new_docs_url(full[k], visited, base)
                       /\ full[k] \notin Range(regular) })

\* The anchors the selector loop of lines 134-169 appends.  Selected anchors
\* are taken in document order; an anchor several selectors select is appended
\* once (line 141), and so is a URL several selected anchors lead to.
nav_links(anchors, full, visited, base, regular, buttons) ==
    in_order(full, { k \in DOMAIN anchors :
                       /\ anchors[k] \in next_nav_anchors
                       /\ new_docs_url(full[k], visited, base)
                       /\ full[k] \notin Range(regular)
                       /\ full[k] \notin Range(buttons)
                       /\ \A i \in 1..(k - 1) :
                            anchors[i] \in next_nav_anchors => full[i] # full[k] })

\* next_links when the selector loop is over, started from the next_links of
\* the button loop (line 96).
next_links(anchors, full, visited, base, regular, buttons) ==
    buttons \o nav_links(anchors, full, visited, base, regular, buttons)

\* Line 172, given regular_links.
next_before_regular(anchors, full, visited, base, regular) ==
    next_links(anchors, full, visited, base, regular,
               next_buttons(anchors, full, visited, base, regular)) \o regular

\* Lines 83-172, given the URLs of the anchors.
links_of(anchors, full, visited, base) ==
    next_before_regular(anchors, full, visited, base,
                        regular_links(anchors, full, visited, base))

\* all_links of line 172.
all_links(anchors, url, visited, base) ==
    links_of(anchors, full_urls(anchors, url), visited, base)

UpperChar(c) ==
    LET k == FindFrom(LowerCase, c, 1)
    IN  IF k = 0 THEN c ELSE CharAt(UpperCase, k)

\* Python str.upper(): the characters from position i on, raised.
RECURSIVE UpperFrom(_, _)
UpperFrom(s, i) ==
    IF i > Len(s) THEN "" ELSE UpperChar(CharAt(s, i)) \o UpperFrom(s, i + 1)

Upper(s) == UpperFrom(s, 1)

\* Lines 225-230.
RECURSIVE parameter_blocks(_)
parameter_blocks(parameters) ==
    IF parameters = << >> THEN << >>
    ELSE LET param == Head(parameters)
             required_text == IF param.required THEN " (required)" ELSE ""
         IN  << "- " \o param.name \o required_text \o ": " \o param.description >>
             \o parameter_blocks(Tail(parameters))

\* Lines 210-230, for the methods of one path.
RECURSIVE method_blocks(_, _)
method_blocks(methods, path) ==
    IF methods = << >> THEN << >>
    ELSE LET details == Head(methods)
             blocks ==
                 IF details.is_dict
                 THEN << "\n### " \o Upper(details.method) \o " " \o path >>
                      \o (IF details.summary # "" THEN << details.summary >> ELSE << >>)
                      \o (IF details.description # "" THEN << details.description >> ELSE << >>)
                      \o (IF details.parameters # << >>
                          THEN << "\nParameters:" >> \o parameter_blocks(details.parameters)
                          ELSE << >>)
                 ELSE << >>
         IN  blocks \o method_blocks(Tail(methods), path)

\* Lines 206-230.
RECURSIVE path_blocks(_)
path_blocks(paths) ==
    IF paths = << >> THEN << >>
    ELSE << "\n## " \o Head(paths).path >>
         \o method_blocks(Head(paths).methods, Head(paths).path)
         \o path_blocks(Tail(paths))

\* title and content_blocks of lines 195-230 for a specification document
\* that was fetched and parsed.
openapi_title(doc) == IF doc.title = None THEN "API Documentation" ELSE doc.title[1]

openapi_blocks(doc) ==
    (IF doc.description # "" THEN << "# " \o openapi_title(doc), doc.description >> ELSE << >>)
    \o path_blocks(doc.paths)

openapi_blocks_of == [ doc \in OpenApiDocs |-> openapi_blocks(doc) ]
openapi_url_of == [ u \in URLs |-> openapi_url(u) ]
changelog_url_of == [ u \in URLs |-> changelog_url(u) ]

\* DocScraper.extract_from_openapi (lines 180-240); doc is what the
\* specification resource answers.
extract_from_openapi(base, doc) ==
    IF doc.status # "ok" THEN EmptyResult(<< openapi_url_of[base] >>)
    ELSE Result(3, Some(openapi_title(doc)), openapi_blocks_of[doc],
                << changelog_url_of[base] >>, << openapi_url_of[base] >>, FALSE)

\* title_text of lines 67-68.
title_text_of == [ h \in { page.h1 : page \in Pages } \ { None } |-> Strip(h[1]) ]

\* The generic strategy, lines 42-174.
extract_generic(url, page, visited, base) ==
    IF ~page.root THEN Result(2, None, << >>, << >>, << >>, FALSE)
    ELSE LET title_text == IF page.h1 = None THEN url ELSE title_text_of[page.h1]
         IN  Result(3, Some(title_text), text_content(page.elements),
                    all_links(page.anchors, url, visited, base), << >>, FALSE)

\* Mutant of uses_openapi: the marker is not looked for.
uses_openapi_Never(page) == FALSE

\* Line 38: which strategy handles the page.
uses_openapi(page) == page.marker

\* DocScraper.extract_content (lines 27-178).
extract_content(url, page, visited, base) ==
    IF page.status # "ok" THEN EmptyResult(<< url >>)
    ELSE LET r == IF uses_openapi(page) THEN extract_from_openapi(url, page.openapi)
                  ELSE extract_generic(url, page, visited, base)
         IN  [ r EXCEPT !.requests = << url >> \o @ ]

----------------------------------------------------------------------------
(* The crawl loop, DocScraper.scrape_docs (lines 246-302).                 *)

\* Mutant of LoopCond: the budget test off by one.
LoopCond_Inclusive(pq, rq, count, budget) ==
    (pq # << >> \/ rq # << >>) /\ count <= budget

\* The while condition (line 252).
LoopCond(pq, rq, count, budget) ==
    (pq # << >> \/ rq # << >>) /\ count < budget

\* Mutant of PopFrontier: the two branches swapped, the regular queue first.
PopFrontier_RegularFirst(pq, rq) ==
    IF rq # << >>
    THEN [ url |-> Head(rq), queue_type |-> "REGULAR", pq |-> pq, rq |-> Tail(rq) ]
    ELSE [ url |-> Head(pq), queue_type |-> "PRIORITY", pq |-> Tail(pq), rq |-> rq ]

\* Lines 254-259: the URL popped, the queue it came from, and the queues left.
PopFrontier(pq, rq) ==
    IF pq # << >>
    THEN [ url |-> Head(pq), queue_type |-> "PRIORITY", pq |-> Tail(pq), rq |-> rq ]
    ELSE [ url |-> Head(rq), queue_type |-> "REGULAR", pq |-> pq, rq |-> Tail(rq) ]

\* Mutant of AlreadyVisited: the test of line 261 left out.
AlreadyVisited_Never(url, visited) == FALSE

\* The test of line 261.
AlreadyVisited(url, visited) == url \in visited

\* Mutant of MarkVisited: line 265 left out.
MarkVisited_Forgets(visited, url) == visited

\* Line 265.
MarkVisited(visited, url) == visited \cup { url }

\* Lines 268-272: the links of a three-element result, none for a two-element one.
UnpackLinks(result) == IF result.arity = 3 THEN result.links ELSE << >>

\* Mutant of RecordPage: a record is appended whatever the content.
RecordPage_Always(records, url, title, content) ==
    Append(records, [ url |-> url, title |-> title, content |-> content ])

\* Mutant of RecordPage: the record inserted at the front.
RecordPage_Prepend(records, url, title, content) ==
    IF content # << >>
    THEN << [ url |-> url, title |-> title, content |-> content ] >> \o records
    ELSE records

\* Lines 274-279.
RecordPage(records, url, title, content) ==
    IF content # << >>
    THEN Append(records, [ url |-> url, title |-> title, content |-> content ])
    ELSE records

\* The test of line 288 on the link at 0-based position i.
has_indicator(link) == \E indicator \in Indicators : Contains(Lower(link), indicator)

indicator_urls == { u \in URLs : has_indicator(u) }

\* Mutant of IsPriorityLink: the position is not looked at.
IsPriorityLink_AnyPosition(i, link) == link \in indicator_urls

IsPriorityLink(i, link) == i < PriorityPrefix /\ link \in indicator_urls

\* Mutant of EnqueueFrom: the test of line 286 left out.
RECURSIVE EnqueueFrom_NoVisitedTest(_, _, _, _, _)
EnqueueFrom_NoVisitedTest(links, k, visited, pq, rq) ==
    IF k > Len(links) THEN [ pq |-> pq, rq |-> rq ]
    ELSE IF IsPriorityLink(k - 1, links[k])
         THEN EnqueueFrom_NoVisitedTest(links, k + 1, visited, Append(pq, links[k]), rq)
         ELSE EnqueueFrom_NoVisitedTest(links, k + 1, visited, pq, Append(rq, links[k]))

\* Lines 285-294 from the link at 1-based position k on.
RECURSIVE EnqueueFrom(_, _, _, _, _)
EnqueueFrom(links, k, visited, pq, rq) ==
    IF k > Len(links) THEN [ pq |-> pq, rq |-> rq ]
    ELSE IF links[k] \notin visited
         THEN IF IsPriorityLink(k - 1, links[k])
              THEN EnqueueFrom(links, k + 1, visited, Append(pq, links[k]), rq)
              ELSE EnqueueFrom(links, k + 1, visited, pq, Append(rq, links[k]))
         ELSE EnqueueFrom(links, k + 1, visited, pq, rq)

\* Lines 274-294: the queues after the page's links were handled; the loop
\* over the links is inside `if content:`.
EnqueueLinks(content, links, visited, pq, rq) ==
    IF content # << >> THEN EnqueueFrom(links, 1, visited, pq, rq)
    ELSE [ pq |-> pq, rq |-> rq ]

\* Mutant of NextPageCount: line 301 moved inside `if content:`.
NextPageCount_OnlyWithContent(count, content) ==
    IF content # << >> THEN count + 1 ELSE count

\* Line 301, which is outside `if content:`; content is what the page yielded.
NextPageCount(count, content) == count + 1

----------------------------------------------------------------------------
(* Serialization, DocScraper.save_to_file (lines 304-320).                 *)

\* "=" * 50 (lines 307, 317) and "-" * 50 (line 312).
equals_rule == Repeat("=", RuleWidth)
dash_rule == Repeat("-", RuleWidth)

\* What an f-string makes of a title: the string, or "None".
format_title(title) == IF title = None THEN "None" ELSE title[1]

\* The writes of the loop of lines 314-315.
RECURSIVE write_blocks(_)
write_blocks(content) ==
    IF content = << >> THEN << >>
    ELSE << Head(content) \o "\n" >> \o write_blocks(Tail(content))

\* Mutant of write_page: the Title line left out.
write_page_NoTitle(page) ==
    << "URL: " \o page.url \o "\n", dash_rule \o "\n" >>
    \o write_blocks(page.content)
    \o << "\n" \o equals_rule \o "\n\n" >>

\* The writes of one iteration of the loop of lines 309-317.
write_page(page) ==
    << "URL: " \o page.url \o "\n",
       "Title: " \o format_title(page.title) \o "\n",
       dash_rule \o "\n" >>
    \o write_blocks(page.content)
    \o << "\n" \o equals_rule \o "\n\n" >>

RECURSIVE write_pages(_)
write_pages(records) ==
    IF records = << >> THEN << >>
    ELSE write_page(Head(records)) \o write_pages(Tail(records))

\* The writes of save_to_file, in order (lines 306-317).
save_to_file(records) ==
    << "Doc-Fetcher API Documentation\n", equals_rule \o "\n\n" >> \o write_pages(records)

----------------------------------------------------------------------------
(* History.                                                                *)

\* Whether the classifier rules of the design rank the link at 0-based
\* position i of the returned list as Priority: an anchor to it says next, a
\* navigation selector with a forward keyword selects an anchor to it, or the
\* position-and-keyword test of enqueue time holds.
RankedPriority(i, link, url, page) ==
    \/ \E k \in DOMAIN page.anchors :
           /\ full_url_of[url][page.anchors[k].href] = link
           /\ page.anchors[k] \in next_button_anchors \cup next_nav_anchors
    \/ IsPriorityLink(i, link)

\* The appends a step made to a queue, as push records.
Pushed(before, after, from, queue) ==
    [ k \in 1..(Len(after) - Len(before)) |->
        [ url |-> after[Len(before) + k], from |-> from, queue |-> queue ] ]

PushedURLs(before, after) == { after[k] : k \in (Len(before) + 1)..Len(after) }

\* owed and late after url was popped.
OwedAfterPop(url) == { pr \in owed : pr[1] # url /\ pr[2] # url }
LateAfterPop(url) == late \cup { pr \in owed : pr[2] = url }

----------------------------------------------------------------------------
(* State machine.                                                          *)

\* After DocScraper(base_url) and the first three lines of scrape_docs.
Init ==
    /\ base_url \in BaseURLs
    /\ max_pages \in 0..MaxPages
    /\ visited_urls = { }
    /\ scraped_content = << >>
    /\ priority_queue = << base_url >>
    /\ regular_queue = << >>
    /\ page_count = 0
    /\ pc = "loop"
    /\ requests = << >>
    /\ pushes = << >>
    /\ last = [ kind |-> "none" ]
    /\ failed = { }
    /\ owed = { }
    /\ late = { }
    /\ chain = TRUE
    /\ output = << >>

\* One iteration that pops an already visited URL (lines 252-262).
Skip ==
    /\ pc = "loop"
    /\ LoopCond(priority_queue, regular_queue, page_count, max_pages)
    /\ \E p \in { PopFrontier(priority_queue, regular_queue) } :
           /\ AlreadyVisited(p.url, visited_urls)
           /\ priority_queue' = p.pq
           /\ regular_queue' = p.rq
           /\ last' = [ kind |-> "skip", url |-> p.url, queue_type |-> p.queue_type,
                        pq_before |-> priority_queue, rq_before |-> regular_queue ]
           /\ owed' = OwedAfterPop(p.url)
           /\ late' = LateAfterPop(p.url)
    /\ UNCHANGED << base_url, max_pages, visited_urls, scraped_content, page_count,
                    pc, requests, pushes, failed, chain, output >>

\* The history of one processing step: page answered the fetch of p.url,
\* result is what extraction returned and q the queues after the step.
ProcessHistory(p, page, result, links, q) ==
    LET url == p.url
        new == PushedURLs(p.pq, q.pq) \cup PushedURLs(p.rq, q.rq)
        ranked == { links[k] : k \in { j \in DOMAIN links :
                                         RankedPriority(j - 1, links[j], url, page) } }
    IN  /\ requests' = requests \o result.requests
        /\ pushes' = pushes \o Pushed(p.pq, q.pq, url, "PRIORITY")
                            \o Pushed(p.rq, q.rq, url, "REGULAR")
        /\ last' = [ kind |-> "process", url |-> url, queue_type |-> p.queue_type,
                     pq_before |-> priority_queue, rq_before |-> regular_queue,
                     page |-> page, title |-> result.title,
                     content |-> result.content, links |-> links,
                     raised |-> result.raised ]
        /\ failed' = IF result.raised THEN failed \cup { url } ELSE failed
        /\ owed' = OwedAfterPop(url) \cup
                   { pr \in new \X new : pr[1] \in ranked /\ pr[2] \notin ranked }
        /\ late' = LateAfterPop(url)
        /\ chain' = /\ chain
                    /\ result.content # << >>
                    /\ Len(links) = 1
                    /\ links[1] \notin visited_urls'
                    /\ links[1] \notin { pushes[k].url : k \in DOMAIN pushes }

\* One iteration that pops a new URL and processes it (lines 252-302); page
\* is what the network answers.
Process ==
    /\ pc = "loop"
    /\ LoopCond(priority_queue, regular_queue, page_count, max_pages)
    /\ \E page \in Pages :
       \E p \in { PopFrontier(priority_queue, regular_queue) } :
       \E visited \in { MarkVisited(visited_urls, p.url) } :
       \E result \in { extract_content(p.url, page, visited, base_url) } :
       \E links \in { UnpackLinks(result) } :
       \E q \in { EnqueueLinks(result.content, links, visited, p.pq, p.rq) } :
          /\ ~AlreadyVisited(p.url, visited_urls)
          /\ visited_urls' = visited
          /\ scraped_content' =
                 RecordPage(scraped_content, p.url, result.title, result.content)
          /\ priority_queue' = q.pq
          /\ regular_queue' = q.rq
          /\ page_count' = NextPageCount(page_count, result.content)
          /\ ProcessHistory(p, page, result, links, q)
    /\ UNCHANGED << base_url, max_pages, pc, output >>

\* Mutant of Halt: scrape_docs returns whatever the while condition says.
Halt_Anytime ==
    /\ pc = "loop"
    /\ pc' = "done"
    /\ UNCHANGED << base_url, max_pages, visited_urls, scraped_content, priority_queue,
                    regular_queue, page_count, requests, pushes, last, failed,
                    owed, late, chain, output >>

\* The while condition fails and scrape_docs returns (line 252).
Halt ==
    /\ pc = "loop"
    /\ ~LoopCond(priority_queue, regular_queue, page_count, max_pages)
    /\ pc' = "done"
    /\ UNCHANGED << base_url, max_pages, visited_urls, scraped_content, priority_queue,
                    regular_queue, page_count, requests, pushes, last, failed,
                    owed, late, chain, output >>

\* main calls save_to_file once scrape_docs returned (lines 333-334).
Save ==
    /\ pc = "done"
    /\ pc' = "saved"
    /\ output' = save_to_file(scraped_content)
    /\ UNCHANGED << base_url, max_pages, visited_urls, scraped_content, priority_queue,
                    regular_queue, page_count, requests, pushes, last, failed,
                    owed, late, chain >>

Next == Skip \/ Process \/ Halt \/ Save

Spec == Init /\ [][Next]_vars

\* The loop is sequential code: an iteration that can run does run.
FairSpec == Spec /\ WF_vars(Next)

----------------------------------------------------------------------------
(* Properties.                                                             *)

IsPrefix(s, t) == Len(s) <= Len(t) /\ SubSeq(t, 1, Len(s)) = s

\* Whether s can be had from t by deleting entries.
RECURSIVE IsSubsequence(_, _)
IsSubsequence(s, t) ==
    IF s = << >> THEN TRUE
    ELSE IF t = << >> THEN FALSE
    ELSE IF Head(s) = Head(t) THEN IsSubsequence(Tail(s), Tail(t))
    ELSE IsSubsequence(s, Tail(t))

Occurrences(s, x) == Cardinality({ k \in DOMAIN s : s[k] = x })

Queued == Range(priority_queue) \cup Range(regular_queue)

\* The URL the frontier discipline of the design hands out next.
FrontierHead == IF priority_queue # << >> THEN Head(priority_queue) ELSE Head(regular_queue)

\* C1: in any run of scrape_docs each URL is requested from the network at
\* most once.
C1_EachURLFetchedOnce == \A u \in Range(requests) : Occurrences(requests, u) <= 1

\* C2: every pop returns the head of the priority queue when that queue is
\* non-empty and the head of the regular queue only when it is empty, and each
\* queue is first-in first-out: a step removes nothing but the popped head and
\* adds only at the tail.
C2_PopOrder ==
    [][ pc' = "loop" =>
          IF priority_queue # << >>
          THEN /\ last'.url = Head(priority_queue)
               /\ last'.queue_type = "PRIORITY"
               /\ IsPrefix(Tail(priority_queue), priority_queue')
               /\ IsPrefix(regular_queue, regular_queue')
          ELSE /\ last'.url = Head(regular_queue)
               /\ last'.queue_type = "REGULAR"
               /\ IsPrefix(priority_queue, priority_queue')
               /\ IsPrefix(Tail(regular_queue), regular_queue') ]_vars

\* A URL was popped from the priority queue while the regular queue held URLs.
C2_Witness ==
    /\ last.kind # "none"
    /\ last.queue_type = "PRIORITY"
    /\ last.rq_before # << >>

\* C3: when a page yields a link P that the classifier rules rank Priority
\* together with Regular links, P is popped before each of them: no Regular
\* link is ever popped while a Priority link enqueued with it still waits.
C3_PriorityPoppedFirst == late = { }

\* The run of claim C4: max_pages = 3 and every page processed so far had
\* content and linked to exactly one page that was new.
ChainRun == max_pages = 3 /\ chain

\* C4: with max_pages = 3 and a link graph in which each page links to one
\* new unvisited page, scrape_docs halts, and when it has halted exactly 3
\* PageRecords have been produced.
C4_BudgetHalts ==
    /\ <>(pc = "done")
    /\ [](pc = "done" /\ ChainRun => Len(scraped_content) = 3)

C4_Witness == pc = "done" /\ ChainRun /\ Len(scraped_content) = 3 /\ Queued # { }

\* C5: the links extraction returned are enqueued for every processed page,
\* whether or not the page yielded blocks: right after a page was processed,
\* each returned link that is not visited is in a queue.
C5_LinksEnqueuedWithoutContent ==
    last.kind = "process" =>
        \A link \in Range(last.links) : link \notin visited_urls => link \in Queued

\* C6: a URL joins visited_urls exactly when it is popped and processed, never
\* when it is enqueued; a pop of a visited URL is a skip that changes neither
\* visited_urls nor the requests made, however many queue slots held the URL.
C6_VisitedOnPop ==
    [][ IF pc' = "loop"
        THEN IF last'.url \in visited_urls
             THEN /\ last'.kind = "skip"
                  /\ visited_urls' = visited_urls
                  /\ requests' = requests
             ELSE /\ last'.kind = "process"
                  /\ last'.url = FrontierHead
                  /\ visited_urls' = visited_urls \cup { last'.url }
                  /\ Occurrences(requests', last'.url) = 1
        ELSE visited_urls' = visited_urls /\ requests' = requests ]_vars

\* A URL that two different pages pushed before any copy was popped, held two
\* queue slots at once, and its second pop was a skip.
C6_Witness ==
    /\ last.kind = "skip"
    /\ Occurrences(requests, last.url) = 1
    /\ \E i, j \in DOMAIN pushes :
         /\ pushes[i].url = last.url
         /\ pushes[j].url = last.url
         /\ pushes[i].from # pushes[j].from

\* C7: at every loop head page_count is the number of URLs fetched, the size
\* of visited_urls, and it never exceeds max_pages; a pop of a visited URL
\* leaves page_count, visited_urls and the results unchanged, and a processed
\* URL adds exactly one to page_count, with or without content.
C7_PageCount ==
    /\ [](page_count = Cardinality(visited_urls) /\ Cardinality(visited_urls) <= max_pages)
    /\ [][ pc' = "loop" =>
             IF last'.url \in visited_urls
             THEN UNCHANGED << page_count, visited_urls, scraped_content >>
             ELSE page_count' = page_count + 1 ]_vars

\* A page without content was counted, and it used up the budget.
C7_Witness ==
    /\ last.kind = "process"
    /\ last.content = << >>
    /\ page_count = max_pages
    /\ page_count > 1

\* C8: no URL is appended to a queue while it is in visited_urls: of the
\* links of the page just processed, none that was pushed is visited.
C8_NoVisitedAppend ==
    last.kind = "process" =>
        \A k \in DOMAIN pushes : pushes[k].from = last.url => pushes[k].url \notin visited_urls

\* Extraction returned a link that is visited, and the page had content: the
\* enqueue loop ran and dropped it.
C8_Witness ==
    /\ last.kind = "process"
    /\ last.content # << >>
    /\ \E link \in Range(last.links) : link \in visited_urls /\ link \notin Queued

RecordURLs == [ k \in DOMAIN scraped_content |-> scraped_content[k].url ]

\* C9: scraped_content is append-only, every step leaves the old sequence a
\* prefix of the new one, and the records are in the order their URLs were
\* fetched.
C9_AppendOnly ==
    /\ [][ IsPrefix(scraped_content, scraped_content') ]_vars
    /\ [](IsSubsequence(RecordURLs, requests))

C9_Witness ==
    /\ Len(scraped_content) >= 3
    /\ Len(requests) > Len(scraped_content)

\* C10: a URL whose fetch or extraction failed is in visited_urls from then
\* on and is never requested again.
C10_NoRetry ==
    \A u \in failed : u \in visited_urls /\ Occurrences(requests, u) = 1

\* A URL that failed resurfaced as a link of a page processed later.
C10_Witness ==
    \E u \in failed :
        /\ last.kind = "process"
        /\ last.url # u
        /\ \E k \in DOMAIN last.page.anchors :
             full_url_of[last.url][last.page.anchors[k].href] = u

\* Whether the fetch of the page, or of the specification resource the page
\* sent the extractor to, failed.
FetchFailed(page) ==
    page.status # "ok" \/ (page.marker /\ page.openapi.status # "ok")

FrontierEmpty == priority_queue = << >> /\ regular_queue = << >>

\* C11: a page whose fetch failed yields no title, no blocks and no links, the
\* step that handled it leaves the loop running with every other frontier
\* entry still queued, and the loop is left only when the frontier is empty
\* or page_count has reached max_pages.
C11_FailureDoesNotHalt ==
    /\ [](last.kind = "process" /\ FetchFailed(last.page) =>
             last.title = None /\ last.content = << >> /\ last.links = << >>)
    /\ [][ visited_urls' # visited_urls /\ FetchFailed(last'.page) =>
             /\ pc' = "loop"
             /\ scraped_content' = scraped_content
             /\ priority_queue' \o regular_queue' = Tail(priority_queue \o regular_queue) ]_vars
    /\ [][ pc = "loop" /\ pc' # "loop" => FrontierEmpty \/ page_count >= max_pages ]_vars

\* A fetch failed earlier, and the loop went on to process another page with
\* frontier and budget left.
C11_Witness ==
    /\ failed # { }
    /\ last.kind = "process"
    /\ last.url \notin failed
    /\ ~FrontierEmpty
    /\ page_count < max_pages

\* The URLs the anchors of the page processed last resolve to.
AnchorURLs(url, page) ==
    { full_url_of[url][page.anchors[k].href] : k \in DOMAIN page.anchors }

\* C12: processing a page whose body holds the marker requests the page and
\* then the specification resource, once each; the result holds none of the
\* blocks and none of the links generic extraction finds in the page's own
\* HTML; and it is empty if the specification resource failed.
C12_MarkerTakesSpecificationPath ==
    [][ visited_urls' # visited_urls /\ last'.page.status = "ok" /\ last'.page.marker =>
          /\ requests' = requests \o << last'.url, openapi_url(last'.url) >>
          /\ Range(last'.content) \cap Range(text_content(last'.page.elements)) = { }
          /\ Range(last'.links) \cap AnchorURLs(last'.url, last'.page) = { }
          /\ last'.page.openapi.status # "ok" =>
                last'.title = None /\ last'.content = << >> /\ last'.links = << >> ]_vars

\* A marker page with text and a link of its own was processed while the
\* specification resource failed: nothing was extracted and nothing enqueued.
C12_Witness ==
    /\ last.kind = "process"
    /\ last.page.status = "ok" /\ last.page.marker
    /\ last.page.openapi.status # "ok"
    /\ text_content(last.page.elements) # << >>
    /\ AnchorURLs(last.url, last.page) # { }
    /\ last.content = << >>
    /\ pc = "done"

\* elem.get_text().strip() as the claims read it.
Trimmed(elem) == Strip(elem.text)

\* Whether generic extraction handled the page and found a content root.
GenericallyExtracted(page) == page.status = "ok" /\ ~page.marker /\ page.root

\* The trimmed texts of the elements whose trimmed text is longer than
\* MinTextLen characters, in document order.
RECURSIVE LongTexts(_)
LongTexts(elements) ==
    IF elements = << >> THEN << >>
    ELSE (IF Len(Trimmed(Head(elements))) > MinTextLen
          THEN << Trimmed(Head(elements)) >> ELSE << >>)
         \o LongTexts(Tail(elements))

\* C13: generic extraction emits one block for each element whose trimmed
\* text is longer than 10 characters and for no other, in document order: the
\* j-th block carries the trimmed text of the j-th such element.
C13_NoiseFilter ==
    last.kind = "process" /\ GenericallyExtracted(last.page) =>
        \E long \in { LongTexts(last.page.elements) } :
            /\ Len(last.content) = Len(long)
            /\ \A j \in DOMAIN long : Contains(last.content[j], long[j])

\* The page held a text of exactly 10 characters and one of exactly 11 after
\* trimming: the first is not among the blocks, the second is.
C13_Witness ==
    /\ last.kind = "process" /\ GenericallyExtracted(last.page)
    /\ \E e \in Range(last.page.elements) :
          /\ Len(Trimmed(e)) = MinTextLen
          /\ \A j \in DOMAIN last.content : ~Contains(last.content[j], Trimmed(e))
    /\ \E e \in Range(last.page.elements) :
          /\ Len(Trimmed(e)) = MinTextLen + 1
          /\ e.text # Trimmed(e)
          /\ Trimmed(e) \in Range(last.content)

LevelOf == [ h1 |-> 1, h2 |-> 2, h3 |-> 3, h4 |-> 4, h5 |-> 5, h6 |-> 6 ]

\* A heading of the given level and text as the design renders it.
Rendered(level, text) == "\n" \o Repeat("#", level) \o " " \o text \o "\n"

\* C14 as stated: a page with the level-3 heading "Setup" yields the block
\* "\n### Setup\n".
C14_SetupRendered ==
    /\ last.kind = "process" /\ GenericallyExtracted(last.page)
    /\ Element("h3", "Setup") \in Range(last.page.elements)
    => Rendered(3, "Setup") \in Range(last.content)

\* C14, amended: a heading of level k whose trimmed text is longer than 10
\* characters is emitted as newline, k '#', a space, the trimmed text,
\* newline; a heading whose trimmed text is at most 10 characters long, such
\* as "Setup", is emitted in no form.
C14_LongHeadingRendered ==
    last.kind = "process" /\ GenericallyExtracted(last.page) =>
        \A e \in Range(last.page.elements) :
            e.name \in Headings =>
                IF Len(Trimmed(e)) > MinTextLen
                THEN Rendered(LevelOf[e.name], Trimmed(e)) \in Range(last.content)
                ELSE \A j \in DOMAIN last.content : ~Contains(last.content[j], Trimmed(e) \o "\n")

\* The page held the level-3 headings "Setup" and "Setting it up": only the
\* second was emitted.
C14_Witness ==
    /\ last.kind = "process" /\ GenericallyExtracted(last.page)
    /\ Element("h3", "Setup") \in Range(last.page.elements)
    /\ Rendered(3, "Setup") \notin Range(last.content)
    /\ "\n### Setting it up\n" \in Range(last.content)

\* Whether an anchor of the page that leads to link looks like navigation:
\* its text says next, or a navigation selector with a forward keyword
\* selects it.
LooksLikeNavigation(link, url, page) ==
    \E k \in DOMAIN page.anchors :
        /\ full_url_of[url][page.anchors[k].href] = link
        /\ page.anchors[k] \in next_button_anchors \cup next_nav_anchors

\* C15: in the links generic extraction returned, no link that looks like
\* navigation comes after one that does not.
C15_NavigationLinksFirst ==
    last.kind = "process" /\ GenericallyExtracted(last.page) =>
        \A i, j \in DOMAIN last.links :
            /\ i < j
            /\ LooksLikeNavigation(last.links[j], last.url, last.page)
            => LooksLikeNavigation(last.links[i], last.url, last.page)

\* The positions of the writes that start with prefix.
WritesOf(prefix) == { p \in DOMAIN output : StartsWith(output[p], prefix) }

\* The k-th smallest element of a set of numbers.
Nth(S, k) == CHOOSE p \in S : Cardinality({ q \in S : q < p }) = k - 1

\* The number of blocks of all records together.
RECURSIVE BlockCount(_)
BlockCount(records) ==
    IF records = << >> THEN 0 ELSE Len(Head(records).content) + BlockCount(Tail(records))

FiftyEquals == "=================================================="

\* C16: what save_to_file wrote is the header line, a rule of 50 '=', and
\* then for the k-th record, in accumulation order: its URL: line, its Title:
\* line, a rule of '-', each of its blocks followed by a newline, and a rule of
\* 50 '=' that closes the record; there is one URL: line and one Title: line
\* per record and nothing else is written.
C16_SerializationFormat ==
    pc = "saved" =>
        /\ output[1] = "Doc-Fetcher API Documentation\n"
        /\ output[2] = FiftyEquals \o "\n\n"
        /\ Cardinality(WritesOf("URL: ")) = Len(scraped_content)
        /\ Cardinality(WritesOf("Title: ")) = Len(scraped_content)
        /\ \A k \in DOMAIN scraped_content :
              \E p \in { Nth(WritesOf("URL: "), k) } :
              \E page \in { scraped_content[k] } :
                 /\ p = IF k = 1 THEN 3 ELSE Nth(WritesOf("\n" \o FiftyEquals), k - 1) + 1
                 /\ output[p] = "URL: " \o page.url \o "\n"
                 /\ output[p + 1] = "Title: " \o page.title[1] \o "\n"
                 /\ \A j \in DOMAIN page.content : output[p + 2 + j] = page.content[j] \o "\n"
                 /\ output[p + 3 + Len(page.content)] = "\n" \o FiftyEquals \o "\n\n"
                 /\ Nth(WritesOf("\n" \o FiftyEquals), k) = p + 3 + Len(page.content)
        /\ Len(output) = 2 + Cardinality(WritesOf("\n" \o FiftyEquals)) + 3 * Len(scraped_content)
                          + BlockCount(scraped_content)

\* Two records were saved, one of them with more blocks than the other.
C16_Witness ==
    /\ pc = "saved"
    /\ Len(scraped_content) = 2
    /\ Len(scraped_content[1].content) # Len(scraped_content[2].content)
    /\ Cardinality(WritesOf("URL: ")) = 2

\* The entries of seq at the positions in K, in the order of seq.
Picked(seq, K) == [ j \in 1..Cardinality(K) |-> seq[Nth(K, j)] ]

\* What a step appended to a queue; popped tells whether the step took the
\* queue's head first.
Appended(before, after, popped) ==
    SubSeq(after, Len(before) + (IF popped THEN 0 ELSE 1), Len(after))

\* C17: when the enqueue loop runs over the links extraction returned, the
\* links appended to the priority queue are, in order, the not yet visited
\* ones that stand at one of the first 3 positions of the returned list and
\* whose URL contains next, plan, step or part in any letter case, and the
\* links appended to the regular queue are, in order, all other not yet
\* visited ones.
C17_EnqueueClassification ==
    [][ visited_urls' # visited_urls /\ last'.content # << >> =>
          \E links \in { last'.links } :
          \E fresh \in { { k \in DOMAIN links : links[k] \notin visited_urls' } } :
          \E first \in { { k \in fresh : k <= 3 /\ links[k] \in indicator_urls } } :
             /\ Appended(priority_queue, priority_queue', priority_queue # << >>)
                  = Picked(links, first)
             /\ Appended(regular_queue, regular_queue', priority_queue = << >>)
                  = Picked(links, fresh \ first) ]_vars

\* A URL that says "Next" only with a capital letter was appended to the
\* regular queue by a page that returned it as its fourth link and to the
\* priority queue by a page that returned it among its first three.
C17_Witness ==
    \E k, l \in DOMAIN pushes :
        /\ pushes[k].url = pushes[l].url
        /\ pushes[k].queue = "REGULAR"
        /\ pushes[l].queue = "PRIORITY"
        /\ pushes[k].url \in indicator_urls
        /\ \A indicator \in Indicators : ~Contains(pushes[k].url, indicator)

\* C18: scrape_docs returns in every run, and whenever it has returned both
\* queues are empty or page_count equals max_pages.
C18_Terminates ==
    /\ <>(pc # "loop")
    /\ [](pc # "loop" => FrontierEmpty \/ page_count = max_pages)

\* scrape_docs returned because the frontier ran dry, after several pages and
\* with budget left.
C18_Witness ==
    /\ pc = "done"
    /\ FrontierEmpty
    /\ 1 < page_count /\ page_count < max_pages

\* C19: every URL that was enqueued and every URL whose page was fetched
\* passes the scope filter for base_url.
C19_EverythingInScope ==
    \A u \in visited_urls \cup { pushes[k].url : k \in DOMAIN pushes } :
        u \in valid_docs_url[base_url]

\* C20: the records of scraped_content have pairwise distinct URLs, the URL
\* of each is in visited_urls, the content of each is non-empty, and there are
\* at most page_count records.
C20_RecordsWellFormed ==
    /\ \A j, k \in DOMAIN scraped_content :
          scraped_content[j].url = scraped_content[k].url => j = k
    /\ \A k \in DOMAIN scraped_content :
          /\ scraped_content[k].url \in visited_urls
          /\ scraped_content[k].content # << >>
    /\ Len(scraped_content) <= page_count

\* Several pages gave a record and at least one processed page gave none.
C20_Witness ==
    /\ Len(scraped_content) >= 2
    /\ Len(scraped_content) < page_count
    /\ last.kind = "process" /\ last.content = << >>

====
